---------------------------- MODULE Spec2Model ----------------------------
(***************************************************************************)
(* CalorieTrack (src/src/app/page.tsx): the HomePage component's state,    *)
(* its localStorage records, the startup date check, the midnight timer    *)
(* and the log mutations.                                                  *)
(*                                                                         *)
(* Time is a count of instants (milliseconds of DateTime.now()); a         *)
(* calendar day has DayLen instants.  A user gesture (submit, click, goal  *)
(* edit) happens at a later instant than everything before it; network     *)
(* completions and timer callbacks run at the current instant.  A handler  *)
(* together with the re-render and the effects it triggers is one step.    *)
(***************************************************************************)
EXTENDS Integers, Sequences, FiniteSets, TLC

\* ------------------------------------------------------------- bounds
DayLen == 3
MaxTime == 6
MaxLog == 2

\* ---------------------------------------------------------- constants
DEFAULT_DAILY_GOAL == 2000
RESET_TEXT == "Daily Reset for new day"
ZeroMacros == [carbs |-> 0, protein |-> 0, fat |-> 0]
NullDate == -1
NoError == <<>>
MEAL_FROM_IMAGE == "Meal from image"
LOGGED_MEAL == "Logged Meal"
MISSING_KEY == "OpenAI API key is not configured."
FAILED_TO_PROCESS_IMAGE == "Failed to process image."
FAILED_TO_FETCH == "Failed to fetch calorie estimate"
NO_CONTENT == "No response content from OpenAI."
COULD_NOT_PARSE == "Could not parse calorie estimate from response"
UNKNOWN_ERROR == "An unknown error occurred"
FailureMessages == {FAILED_TO_FETCH, NO_CONTENT, UNKNOWN_ERROR}

\* Inputs: meal texts a user types with a manual calorie value (any text, the
\* marker text of the sentinel entry included), meal texts sent for
\* estimation, nutrition records the estimation endpoint can return (already
\* parsed), manual calorie values, goal inputs.
MealTexts == {"toast", RESET_TEXT}
EstimatedTexts == {"toast"}
Nutrition == {[calories |-> 300, macros |-> [carbs |-> 30, protein |-> 10, fat |-> 5]]}
ManualCalories == {350}
ManualValues == {-5, 350}
ImageTexts == {"", "toast"}
Descriptions == {<<>>, <<"salad">>}
GoalInputs == {<<"6", "0", "0">>, <<"0">>, <<"-", "5">>, <<"a", "b", "c">>, <<>>}

VARIABLES
  now,               \* DateTime.now().toMillis(), in instants
  mounted,           \* the page is loaded
  localStorage,      \* key -> <<>> (no item) or <<value>> (the JSON text's value)
  dailyGoal, consumedCalories, consumedMacros, log, calorieHistory, isLoading,
  timers,            \* pending setTimeout callbacks with their closures
  inflight,          \* <<>> or <<the submission being processed>>
  error,             \* <<>> (null) or <<message>>
  apiKey,            \* OPENAI_API_KEY is configured
  content,           \* the response text given to the parser
  parsed,            \* <<>> or <<what parseNutritionFromResponse returned for it>>
  lastOp             \* history variable: the handler that ran last, the
                     \* date it archived (NullDate when it archived nothing)
                     \* and, for a goal change, the input it was given

vars == <<now, mounted, localStorage, dailyGoal, consumedCalories, consumedMacros,
          log, calorieHistory, isLoading, timers, inflight, error, apiKey,
          content, parsed, lastOp>>

\* ------------------------------------------------------------ helpers
\* date.toFormat('yyyy-MM-dd') of an instant: the calendar day it lies in.
getFormattedDate(t) == t \div DayLen

\* DateTime.fromFormat(date, 'yyyy-MM-dd').toMillis(): the day's first instant.
DateToMillis(d) == d * DayLen

\* Variant: the delay is a whole day, startOf('day') left out.
TomorrowNoStartOfDay(t) == t + DayLen

\* now.plus({ days: 1 }).startOf('day').toMillis()
Tomorrow(t) == DateToMillis(getFormattedDate(t) + 1)

\* JSON.stringify / JSON.parse of a localStorage item.
JSONstringify(v) == <<v>>
JSONparse(item) == item[1]
NoItem == <<>>

IsReset(entry) == entry.text = RESET_TEXT

\* Array.prototype.find, given the elements satisfying the test in array
\* order: the first of them, as <<>> (undefined) or <<e>>.
FindFirst(hits) == IF hits = <<>> THEN <<>> ELSE <<Head(hits)>>

\* Array.prototype.sort with (a, b) => millis(b.date) - millis(a.date):
\* a stable sort, descending by date.
RECURSIVE InsertDesc(_, _)
InsertDesc(e, s) ==
  IF s = <<>> THEN <<e>>
  ELSE IF DateToMillis(Head(s).date) - DateToMillis(e.date) < 0
       THEN <<e>> \o s
       ELSE <<Head(s)>> \o InsertDesc(e, Tail(s))

RECURSIVE SortByDateDesc(_)
SortByDateDesc(s) ==
  IF s = <<>> THEN <<>>
  ELSE InsertDesc(s[Len(s)], SortByDateDesc(SubSeq(s, 1, Len(s) - 1)))

\* Variant: the entries of the same date are not filtered out.
ReplaceInHistoryNoFilter(history, newHistoryEntry) ==
  SortByDateDesc(<<newHistoryEntry>> \o history)

\* prevHistory.filter(entry => entry.date !== date), the new entry put in
\* front, then the sort.
ReplaceInHistory(history, newHistoryEntry) ==
  SortByDateDesc(<<newHistoryEntry>>
                 \o SelectSeq(history, LAMBDA h : h.date # newHistoryEntry.date))

\* ------------------------------------------------------ response parser
\* Strings the parser looks into are sequences of one-character strings.
\* A JSON value is [type |-> "number", str |-> its Number::toString text],
\* [type |-> "string", str |-> its characters], [type |-> "null"],
\* [type |-> "boolean", str |-> "true" or "false" as characters], or
\* [type |-> "object", fields |-> a function from property names to values].
WhiteSpace == {" ", "\n", "\t"}

DecDigits == {"0", "1", "2", "3", "4", "5", "6", "7", "8", "9"}

HexDigits == DecDigits \cup {"a", "b", "c", "d", "e", "f", "A", "B", "C", "D", "E", "F"}

DigitValue(c) ==
  CASE c = "0" -> 0 [] c = "1" -> 1 [] c = "2" -> 2 [] c = "3" -> 3 [] c = "4" -> 4
    [] c = "5" -> 5 [] c = "6" -> 6 [] c = "7" -> 7 [] c = "8" -> 8 [] c = "9" -> 9
    [] c \in {"a", "A"} -> 10 [] c \in {"b", "B"} -> 11 [] c \in {"c", "C"} -> 12
    [] c \in {"d", "D"} -> 13 [] c \in {"e", "E"} -> 14 [] c \in {"f", "F"} -> 15

\* ToString of a JSON value.
JSToString(v) ==
  CASE v.type = "null" -> <<"n", "u", "l", "l">>
    [] v.type = "object" -> <<"[", "o", "b", "j", "e", "c", "t", " ", "O", "b", "j", "e", "c", "t", "]">>
    [] OTHER -> v.str

RECURSIVE TrimStart(_)
TrimStart(s) ==
  IF s # <<>> /\ Head(s) \in WhiteSpace THEN TrimStart(Tail(s)) ELSE s

\* The longest prefix of s made of the given digits.
RECURSIVE DigitPrefix(_, _)
DigitPrefix(s, digits) ==
  IF s # <<>> /\ Head(s) \in digits
  THEN <<Head(s)>> \o DigitPrefix(Tail(s), digits) ELSE <<>>

\* The number a digit sequence denotes in radix R.
RECURSIVE DigitsToNumber(_, _)
DigitsToNumber(z, R) ==
  IF z = <<>> THEN 0
  ELSE DigitsToNumber(SubSeq(z, 1, Len(z) - 1), R) * R + DigitValue(z[Len(z)])

\* parseInt(string) and parseInt(string, 10): <<>> is NaN, <<n>> the number n.
\* Leading white space is skipped, a sign taken, a 0x prefix selects radix 16
\* (only when no radix is given), and the digits up to the first other
\* character are read.
ParseIntRadix(chars, radixGiven) ==
  LET S == TrimStart(chars)
      negative == S # <<>> /\ Head(S) = "-"
      S1 == IF S # <<>> /\ Head(S) \in {"+", "-"} THEN Tail(S) ELSE S
      hex == ~radixGiven /\ Len(S1) >= 2 /\ S1[1] = "0" /\ S1[2] \in {"x", "X"}
      S2 == IF hex THEN SubSeq(S1, 3, Len(S1)) ELSE S1
      Z == DigitPrefix(S2, IF hex THEN HexDigits ELSE DecDigits)
      number == DigitsToNumber(Z, IF hex THEN 16 ELSE 10)
  IN  IF Z = <<>> THEN <<>> ELSE <<IF negative THEN 0 - number ELSE number>>

parseInt(v) == ParseIntRadix(JSToString(v), FALSE)

\* x || 0 for a parseInt result: NaN and 0 give 0.
OrZero(r) == IF r = <<>> THEN 0 ELSE r[1]

\* A word token of a response text is a unit of the first pattern.
IsUnit(token) == token.word \in {"calories", "kcal"}

\* /(\d+)\s*(?:calories|kcal)/i over the tokens of a text (a token is a run of
\* digits, [digits |-> run], or a word, [word |-> lower-cased word]; tokens
\* are separated by white space unless glued): the first digit run directly
\* followed by a unit.
SpecificMatch(tokens) ==
  FindFirst(SelectSeq([i \in 1..Len(tokens) |->
                         IF /\ "digits" \in DOMAIN tokens[i]
                            /\ i < Len(tokens)
                            /\ "word" \in DOMAIN tokens[i + 1]
                            /\ IsUnit(tokens[i + 1])
                         THEN tokens[i].digits ELSE <<>>],
                      LAMBDA m : m # <<>>))

\* Variant: a text without a number counts as holding the number 1.
GeneralMatchOrOne(tokens) ==
  IF \E i \in 1..Len(tokens) : "digits" \in DOMAIN tokens[i] /\ ~tokens[i].glued
  THEN FindFirst(SelectSeq([i \in 1..Len(tokens) |->
                              IF "digits" \in DOMAIN tokens[i] /\ ~tokens[i].glued
                              THEN tokens[i].digits ELSE <<>>],
                           LAMBDA m : m # <<>>))
  ELSE <<<<"1">>>>

\* /\b(\d+)\b/: the first digit run standing on its own.
GeneralMatch(tokens) ==
  FindFirst(SelectSeq([i \in 1..Len(tokens) |->
                         IF "digits" \in DOMAIN tokens[i] /\ ~tokens[i].glued
                         THEN tokens[i].digits ELSE <<>>],
                      LAMBDA m : m # <<>>))

\* parseNutritionFromResponse: <<>> is null, <<data>> the nutrition data.
\* responseText.json is <<>> when JSON.parse throws and <<value>> otherwise;
\* responseText.tokens are the text's tokens.
parseNutritionFromResponse(responseText) ==
  LET jsonThrows == responseText.json = <<>>
      jsonData == responseText.json[1]
      \* reading a property of null throws as well
      throws == jsonThrows \/ jsonData.type = "null"
      has(name) == jsonData.type = "object" /\ name \in DOMAIN jsonData.fields
      specificMatch == SpecificMatch(responseText.tokens)
      generalMatch == GeneralMatch(responseText.tokens)
      potentialCalories == OrZero(ParseIntRadix(generalMatch[1], TRUE))
  IN  IF ~throws
      THEN IF has("calories") /\ has("carbs") /\ has("protein") /\ has("fat")
           THEN <<[calories |-> OrZero(parseInt(jsonData.fields["calories"])),
                   macros |-> [carbs |-> OrZero(parseInt(jsonData.fields["carbs"])),
                               protein |-> OrZero(parseInt(jsonData.fields["protein"])),
                               fat |-> OrZero(parseInt(jsonData.fields["fat"]))]]>>
           ELSE <<>>
      ELSE IF specificMatch # <<>>
           THEN <<[calories |-> OrZero(ParseIntRadix(specificMatch[1], TRUE)),
                   macros |-> ZeroMacros]>>
           ELSE IF generalMatch # <<>>
                   /\ potentialCalories > 0 /\ potentialCalories < 5000
                THEN <<[calories |-> potentialCalories, macros |-> ZeroMacros]>>
                ELSE <<>>

\* Inputs of the parser. A number carries the text Number::toString gives it
\* and its value truncated to an integer.
Num(str, trunc) == [type |-> "number", str |-> str, trunc |-> trunc]

Str(str) == [type |-> "string", str |-> str]

JSONNull == [type |-> "null"]

\* 350, -50, 12.7, 0.0000005 (printed 5e-7), "45", "abc" and null.
FieldValues ==
  {Num(<<"3", "5", "0">>, 350), Num(<<"-", "5", "0">>, -50),
   Num(<<"1", "2", ".", "7">>, 12), Num(<<"5", "e", "-", "7">>, 0),
   Str(<<"4", "5">>), Str(<<"a", "b", "c">>), JSONNull}

\* The text of a JSON object with properties calories, carbs, protein and fat.
RecordText(calories, carbs, protein, fat) ==
  [json |-> <<[type |-> "object",
               fields |-> [calories |-> calories, carbs |-> carbs,
                           protein |-> protein, fat |-> fat]]>>,
   tokens |-> <<>>]

\* A text that is not JSON.
PlainText(tokens) == [json |-> <<>>, tokens |-> tokens]

\* 'about 350 kcal' and 'no idea'.
PlainTexts ==
  {PlainText(<<[word |-> "about"], [digits |-> <<"3", "5", "0">>, glued |-> FALSE],
               [word |-> "kcal"]>>),
   PlainText(<<[word |-> "no"], [word |-> "idea"]>>)}

\* '{"calories": 350, "carbs": 30}': JSON without all four properties.
PartialRecordText ==
  [json |-> <<[type |-> "object",
               fields |-> [calories |-> Num(<<"3", "5", "0">>, 350),
                           carbs |-> Num(<<"3", "0">>, 30)]]>>,
   tokens |-> <<[word |-> "calories"], [digits |-> <<"3", "5", "0">>, glued |-> FALSE],
                [word |-> "carbs"], [digits |-> <<"3", "0">>, glued |-> FALSE]>>]

\* Texts that are JSON of another shape: '"350 kcal"' (a quoted string),
\* '{"calories": "350 kcal"}' (a record missing fields) and '350' (a number).
OtherJSONTexts ==
  {[json |-> <<Str(<<"3", "5", "0", " ", "k", "c", "a", "l">>)>>,
    tokens |-> <<[digits |-> <<"3", "5", "0">>, glued |-> FALSE], [word |-> "kcal"]>>],
   [json |-> <<[type |-> "object",
                fields |-> [calories |-> Str(<<"3", "5", "0", " ", "k", "c", "a", "l">>)]]>>,
    tokens |-> <<[word |-> "calories"], [digits |-> <<"3", "5", "0">>, glued |-> FALSE],
                 [word |-> "kcal"]>>],
   [json |-> <<Num(<<"3", "5", "0">>, 350)>>,
    tokens |-> <<[digits |-> <<"3", "5", "0">>, glued |-> FALSE]>>]}

\* 'about 6000', 'about 6000 or 350', 'maybe 4999', 'under 5000',
\* '1200 then 350 Calories', '350kcal' and 'meal2go'.
OtherPlainTexts ==
  {PlainText(<<[word |-> "about"],
               [digits |-> <<"6", "0", "0", "0">>, glued |-> FALSE]>>),
   PlainText(<<[word |-> "about"], [digits |-> <<"6", "0", "0", "0">>, glued |-> FALSE],
               [word |-> "or"], [digits |-> <<"3", "5", "0">>, glued |-> FALSE]>>),
   PlainText(<<[word |-> "maybe"],
               [digits |-> <<"4", "9", "9", "9">>, glued |-> FALSE]>>),
   PlainText(<<[word |-> "under"],
               [digits |-> <<"5", "0", "0", "0">>, glued |-> FALSE]>>),
   PlainText(<<[digits |-> <<"1", "2", "0", "0">>, glued |-> FALSE], [word |-> "then"],
               [digits |-> <<"3", "5", "0">>, glued |-> FALSE], [word |-> "calories"]>>),
   PlainText(<<[digits |-> <<"3", "5", "0">>, glued |-> TRUE], [word |-> "kcal"]>>),
   PlainText(<<[word |-> "meal"], [digits |-> <<"2">>, glued |-> TRUE],
               [word |-> "go"]>>)}

\* The response texts the parser is applied to.
ResponseTexts ==
  {RecordText(a, b, c, d) : a \in FieldValues, b \in FieldValues,
                            c \in FieldValues, d \in FieldValues}
    \cup PlainTexts \cup {PartialRecordText} \cup OtherJSONTexts \cup OtherPlainTexts

\* The contents the estimation endpoint answers a submission with.
Choices ==
  {RecordText(Num(<<"3", "5", "0">>, 350), Num(<<"3", "0">>, 30),
              Num(<<"1", "0">>, 10), Num(<<"5">>, 5)),
   RecordText(Num(<<"-", "5", "0">>, -50), Num(<<"3", "0">>, 30),
              Num(<<"1", "0">>, 10), Num(<<"-", "8">>, -8)),
   PartialRecordText}
    \cup PlainTexts

\* ----------------------------------------------------- component state
\* The useState initial values.
InitialState ==
  [dailyGoal |-> DEFAULT_DAILY_GOAL, consumedCalories |-> 0,
   consumedMacros |-> ZeroMacros, log |-> <<>>, calorieHistory |-> <<>>]

State ==
  [dailyGoal |-> dailyGoal, consumedCalories |-> consumedCalories,
   consumedMacros |-> consumedMacros, log |-> log, calorieHistory |-> calorieHistory]

EmptyStorage ==
  [dailyGoal |-> NoItem, consumedCalories |-> NoItem, consumedMacros |-> NoItem,
   calorieLog |-> NoItem, calorieHistory |-> NoItem]

\* Variant: the sentinel's text is not the text the date check looks for.
ResetEntryOtherText(t) ==
  [id |-> <<t, 0>>, text |-> "Daily Reset", calories |-> 0, macros |-> ZeroMacros,
   timestamp |-> t]

\* The sentinel entry put in the state at a rollover.
ResetEntry(t) ==
  [id |-> <<t, 0>>, text |-> RESET_TEXT, calories |-> 0, macros |-> ZeroMacros,
   timestamp |-> t]

\* The sentinel entry the startup check writes to localStorage itself: no macros.
StoredResetEntry(t) ==
  [id |-> <<t, 0>>, text |-> RESET_TEXT, calories |-> 0, timestamp |-> t]

\* Variant: every loaded entry gets zero macros.
MigrateEntryZeroMacros(entry) ==
  [id |-> entry.id, text |-> entry.text, calories |-> entry.calories,
   macros |-> ZeroMacros, timestamp |-> entry.timestamp]

\* { ...entry, macros: entry.macros || zeros }
MigrateEntry(entry) ==
  IF "macros" \in DOMAIN entry THEN entry
  ELSE [id |-> entry.id, text |-> entry.text, calories |-> entry.calories,
        macros |-> ZeroMacros, timestamp |-> entry.timestamp]

MigrateLog(l) == [i \in 1..Len(l) |-> MigrateEntry(l[i])]

MigrateHistory(h) ==
  [i \in 1..Len(h) |-> [h[i] EXCEPT !.mealLog = MigrateLog(@)]]

\* The state slices whose value differs by Object.is after a handler: the
\* numbers by value, the objects and arrays when a setter was given a new one.
ChangedSlices(old, new, refs) ==
  {k \in {"dailyGoal", "consumedCalories"} : old[k] # new[k]} \cup refs

\* Variant: there is no effect writing consumedMacros.
PersistEffectsWithoutMacros(ls, st, changed) ==
  [dailyGoal |-> IF "dailyGoal" \in changed
                 THEN JSONstringify(st.dailyGoal) ELSE ls.dailyGoal,
   consumedCalories |-> IF "consumedCalories" \in changed
                 THEN JSONstringify(st.consumedCalories) ELSE ls.consumedCalories,
   consumedMacros |-> ls.consumedMacros,
   calorieLog |-> IF "log" \in changed
                 THEN JSONstringify(st.log) ELSE ls.calorieLog,
   calorieHistory |-> IF "calorieHistory" \in changed
                 THEN JSONstringify(st.calorieHistory) ELSE ls.calorieHistory]

\* The persistence effects: each writes its slice when the slice changed.
PersistEffects(ls, st, changed) ==
  [dailyGoal |-> IF "dailyGoal" \in changed
                 THEN JSONstringify(st.dailyGoal) ELSE ls.dailyGoal,
   consumedCalories |-> IF "consumedCalories" \in changed
                 THEN JSONstringify(st.consumedCalories) ELSE ls.consumedCalories,
   consumedMacros |-> IF "consumedMacros" \in changed
                 THEN JSONstringify(st.consumedMacros) ELSE ls.consumedMacros,
   calorieLog |-> IF "log" \in changed
                 THEN JSONstringify(st.log) ELSE ls.calorieLog,
   calorieHistory |-> IF "calorieHistory" \in changed
                 THEN JSONstringify(st.calorieHistory) ELSE ls.calorieHistory]

AllSlices == {"dailyGoal", "consumedCalories", "consumedMacros", "log", "calorieHistory"}

\* ------------------------------------------------------ midnight timer
\* checkMidnight's setTimeout: the callback keeps the instant it was armed at
\* and the consumedCalories, log and dailyGoal of the render that armed it.
\* cleanup: the effect holds this timer's clearTimeout.
ArmTimer(t, calories, l, goal, cleanup) ==
  [fireAt |-> Tomorrow(t), now |-> t, consumedCalories |-> calories, log |-> l,
   dailyGoal |-> goal, cleanup |-> cleanup]

MidnightDeps == {"consumedCalories", "log", "dailyGoal"}

\* A run of the midnight effect: the previous run's cleanup, then checkMidnight().
MidnightEffect(tm, st, t) ==
  {x \in tm : ~x.cleanup}
    \cup {ArmTimer(t, st.consumedCalories, st.log, st.dailyGoal, TRUE)}

\* ------------------------------------------------------------- startup
\* The load effect at instant t over storage ls: the state its setters
\* leave, the slices set, the storage after its own writes.
LoadEffect(ls, t) ==
  LET storedDailyGoal == ls.dailyGoal
      storedCalories == ls.consumedCalories
      storedMacros == ls.consumedMacros
      storedLog == ls.calorieLog
      storedHistory == ls.calorieHistory
      s0 == InitialState
      loaded ==
        [dailyGoal |-> IF storedDailyGoal # NoItem
                       THEN JSONparse(storedDailyGoal) ELSE s0.dailyGoal,
         consumedCalories |-> IF storedCalories # NoItem
                       THEN JSONparse(storedCalories) ELSE s0.consumedCalories,
         consumedMacros |-> IF storedMacros # NoItem
                       THEN JSONparse(storedMacros) ELSE s0.consumedMacros,
         log |-> IF storedLog # NoItem
                       THEN MigrateLog(JSONparse(storedLog)) ELSE s0.log,
         calorieHistory |-> IF storedHistory # NoItem
                       THEN MigrateHistory(JSONparse(storedHistory))
                       ELSE s0.calorieHistory]
      loadedRefs ==
        (IF storedMacros # NoItem THEN {"consumedMacros"} ELSE {})
        \cup (IF storedLog # NoItem THEN {"log"} ELSE {})
        \cup (IF storedHistory # NoItem THEN {"calorieHistory"} ELSE {})
      todayStr == getFormattedDate(t)
      lastLog == IF storedLog # NoItem THEN JSONparse(storedLog) ELSE <<>>
      lastEntry == FindFirst(SelectSeq(lastLog, LAMBDA e : ~IsReset(e)))
      lastEntryDate == IF lastEntry # <<>>
                       THEN getFormattedDate(lastEntry[1].timestamp) ELSE NullDate
      doReset == lastEntryDate # NullDate /\ lastEntryDate # todayStr
      storedCaloriesNum == IF storedCalories # NoItem THEN JSONparse(storedCalories) ELSE 0
      storedDailyGoalNum == IF storedDailyGoal # NoItem
                            THEN JSONparse(storedDailyGoal) ELSE s0.dailyGoal
      newHistoryEntry ==
        [date |-> lastEntryDate, totalCalories |-> storedCaloriesNum,
         mealLog |-> SelectSeq(lastLog, LAMBDA e : ~IsReset(e)),
         dailyGoalAtTheTime |-> storedDailyGoalNum]
      prevHistory == IF storedHistory # NoItem THEN JSONparse(storedHistory) ELSE <<>>
      updatedHistory == ReplaceInHistory(prevHistory, newHistoryEntry)
  IN  IF doReset
      THEN [st |-> [loaded EXCEPT !.calorieHistory = updatedHistory,
                                  !.consumedCalories = 0,
                                  !.consumedMacros = ZeroMacros,
                                  !.log = <<ResetEntry(t)>>],
            refs |-> {"consumedMacros", "log", "calorieHistory"},
            ls |-> [ls EXCEPT !.calorieHistory = JSONstringify(updatedHistory),
                              !.consumedCalories = JSONstringify(0),
                              !.consumedMacros = JSONstringify(ZeroMacros),
                              !.calorieLog = JSONstringify(<<StoredResetEntry(t)>>)],
            reset |-> TRUE, archived |-> lastEntryDate]
      ELSE [st |-> loaded, refs |-> loadedRefs, ls |-> ls, reset |-> FALSE,
            archived |-> NullDate]

\* Variant: the re-render after the load effect persists nothing, so storage
\* keeps what the first commit's persistence effects wrote.
StartupRunFirstCommitOnly(ls, t) ==
  LET s0 == InitialState
      ld == LoadEffect(ls, t)
      tm0 == MidnightEffect({}, s0, t)
  IN  [st |-> ld.st,
       ls |-> PersistEffects(ld.ls, s0, AllSlices),
       timers |-> MidnightEffect(tm0, ld.st, t),
       reset |-> ld.reset, archived |-> ld.archived]

\* The mount at instant t over storage ls: the first commit runs the load
\* effect, the persistence effects and the midnight effect with the initial
\* render's state; the re-render the load effect's setters cause runs the
\* effects of the slices that changed.
StartupRun(ls, t) ==
  LET s0 == InitialState
      ld == LoadEffect(ls, t)
      ls1 == PersistEffects(ld.ls, s0, AllSlices)
      tm0 == MidnightEffect({}, s0, t)
      changed == ChangedSlices(s0, ld.st, ld.refs)
  IN  [st |-> ld.st,
       ls |-> PersistEffects(ls1, ld.st, changed),
       timers |-> IF changed \cap MidnightDeps # {}
                  THEN MidnightEffect(tm0, ld.st, t) ELSE tm0,
       reset |-> ld.reset, archived |-> ld.archived]

\* ------------------------------------------------------------ actions
PageNotLoaded ==
  /\ now = 0
  /\ mounted = FALSE
  /\ localStorage = EmptyStorage
  /\ dailyGoal = InitialState.dailyGoal
  /\ consumedCalories = InitialState.consumedCalories
  /\ consumedMacros = InitialState.consumedMacros
  /\ log = InitialState.log
  /\ calorieHistory = InitialState.calorieHistory
  /\ isLoading = FALSE
  /\ timers = {}
  /\ inflight = <<>>
  /\ error = NoError
  /\ lastOp = [name |-> "init", date |-> NullDate]

\* The page before it is loaded, in a build with the key configured.
Init ==
  /\ PageNotLoaded
  /\ apiKey = TRUE
  /\ content = <<>>
  /\ parsed = <<>>

\* The state after a handler, with the effects of the re-render it causes, at
\* instant t; tm are the timers the handler itself leaves pending.
Commit(new, refs, tm, t) ==
  LET changed == ChangedSlices(State, new, refs)
  IN  /\ dailyGoal' = new.dailyGoal
      /\ consumedCalories' = new.consumedCalories
      /\ consumedMacros' = new.consumedMacros
      /\ log' = new.log
      /\ calorieHistory' = new.calorieHistory
      /\ localStorage' = PersistEffects(localStorage, new, changed)
      /\ timers' = IF changed \cap MidnightDeps # {}
                   THEN MidnightEffect(tm, new, t) ELSE tm

\* The page is loaded.
Startup ==
  /\ ~mounted
  /\ LET r == StartupRun(localStorage, now)
     IN  /\ dailyGoal' = r.st.dailyGoal
         /\ consumedCalories' = r.st.consumedCalories
         /\ consumedMacros' = r.st.consumedMacros
         /\ log' = r.st.log
         /\ calorieHistory' = r.st.calorieHistory
         /\ localStorage' = r.ls
         /\ timers' = r.timers
         /\ lastOp' = [name |-> "startup", date |-> r.archived]
  /\ mounted' = TRUE
  /\ isLoading' = FALSE
  /\ inflight' = <<>>
  /\ error' = NoError
  /\ UNCHANGED <<now, apiKey, content, parsed>>

\* The page is closed or reloaded: its timers and pending requests go with it.
Close ==
  /\ mounted
  /\ mounted' = FALSE
  /\ dailyGoal' = InitialState.dailyGoal
  /\ consumedCalories' = InitialState.consumedCalories
  /\ consumedMacros' = InitialState.consumedMacros
  /\ log' = InitialState.log
  /\ calorieHistory' = InitialState.calorieHistory
  /\ isLoading' = FALSE
  /\ timers' = {}
  /\ inflight' = <<>>
  /\ error' = NoError
  /\ lastOp' = [name |-> "close", date |-> NullDate]
  /\ UNCHANGED <<now, localStorage, apiKey, content, parsed>>

\* No timer is due: time may pass.
NoTimerDue == \A x \in timers : x.fireAt > now

Tick ==
  /\ now < MaxTime
  /\ NoTimerDue
  /\ now' = now + 1
  /\ lastOp' = [name |-> "tick", date |-> NullDate]
  /\ UNCHANGED <<mounted, localStorage, dailyGoal, consumedCalories, consumedMacros,
                 log, calorieHistory, isLoading, timers, inflight, error, apiKey,
                 content, parsed>>

\* The setTimeout callback of checkMidnight, for the pending timer tm.
FireTimer(tm) ==
  /\ mounted
  /\ tm \in timers
  /\ now >= tm.fireAt
  /\ LET todayStr == getFormattedDate(tm.now)
         archive == tm.consumedCalories > 0 \/ Len(tm.log) > 0
         newHistoryEntry ==
           [date |-> todayStr, totalCalories |-> tm.consumedCalories,
            mealLog |-> tm.log, dailyGoalAtTheTime |-> tm.dailyGoal]
         new == [State EXCEPT
                   !.calorieHistory = IF archive
                                      THEN ReplaceInHistory(@, newHistoryEntry) ELSE @,
                   !.consumedCalories = 0,
                   !.consumedMacros = ZeroMacros,
                   !.log = <<ResetEntry(now)>>]
         refs == {"consumedMacros", "log"}
                   \cup (IF archive THEN {"calorieHistory"} ELSE {})
         \* checkMidnight() inside the callback: armed with the callback's own
         \* closure, its clearTimeout dropped.
         rearmed == (timers \ {tm})
                      \cup {ArmTimer(now, tm.consumedCalories, tm.log, tm.dailyGoal, FALSE)}
     IN  /\ Commit(new, refs, rearmed, now)
         /\ lastOp' = [name |-> "fire", date |-> IF archive THEN todayStr ELSE NullDate]
  /\ UNCHANGED <<now, mounted, isLoading, inflight, error, apiKey, content, parsed>>

\* A user gesture is handled at the next instant, before any timer due then.
Gesture ==
  /\ mounted
  /\ now < MaxTime
  /\ NoTimerDue
  /\ now' = now + 1

NewEntry(t, suffix, text, calories, macros) ==
  [id |-> <<t, suffix>>, text |-> text, calories |-> calories, macros |-> macros,
   timestamp |-> t]

\* Variant: the entry goes in front of the log, the totals are left as they are.
AddIntoLogOnly(st, newEntry) ==
  [st EXCEPT !.log = <<newEntry>> \o @]

\* Variant: the setters are given values computed from the log and the
\* totals of the first render instead of functions of the previous state.
AddIntoFirstRender(st, newEntry) ==
  [st EXCEPT !.log = <<newEntry>> \o InitialState.log,
             !.consumedCalories = InitialState.consumedCalories + newEntry.calories,
             !.consumedMacros =
                [carbs |-> InitialState.consumedMacros.carbs + newEntry.macros.carbs,
                 protein |-> InitialState.consumedMacros.protein + newEntry.macros.protein,
                 fat |-> InitialState.consumedMacros.fat + newEntry.macros.fat]]

\* The setters of an add: the entry goes in front, the totals grow by its
\* calories and macros (a manual entry's macros are zero).
AddInto(st, newEntry) ==
  [st EXCEPT !.log = <<newEntry>> \o @,
             !.consumedCalories = @ + newEntry.calories,
             !.consumedMacros =
                [carbs |-> @.carbs + newEntry.macros.carbs,
                 protein |-> @.protein + newEntry.macros.protein,
                 fat |-> @.fat + newEntry.macros.fat]]

\* Variant: handleMealSubmit does not look at the key.
MissingKeyNeverChecked(key, manualCalories) == FALSE

\* The first check of handleMealSubmit: no key and an empty calories field.
MissingKey(key, manualCalories) == ~key /\ manualCalories = <<>>

\* The calories field holds a number: the manual branch is taken.
ManualValue(manualCalories) == manualCalories # <<>>

ClampCalories(n) == IF n < 0 THEN 0 ELSE n

\* A submission being processed: phase is "resize", "estimate" or "describe";
\* manualCalories is <<>> or <<the number in the field>>; data is <<>> or
\* <<the calories and macros of the entry awaiting its description>>.
Pending(phase, text, image, manualCalories, data) ==
  [phase |-> phase, text |-> text, image |-> image,
   manualCalories |-> manualCalories, data |-> data]

Awaiting(phase) == inflight # <<>> /\ inflight[1].phase = phase

\* The entry text falls back to 'Meal from image' or 'Logged Meal'.
EntryText(entryText, image) ==
  IF entryText # "" THEN entryText
  ELSE IF image THEN MEAL_FROM_IMAGE ELSE LOGGED_MEAL

\* handleTextSubmit with a number in the calories field: the entry is logged
\* in the handler, no request is made.
SubmitManual(text, manualCalories) ==
  /\ Gesture
  /\ ~isLoading
  /\ Len(log) < MaxLog
  /\ LET caloriesNum == ClampCalories(manualCalories)
         newEntry == NewEntry(now', 0, EntryText(text, FALSE), caloriesNum, ZeroMacros)
     IN  Commit(AddInto(State, newEntry), {"log"}, timers, now')
  /\ error' = NoError
  /\ lastOp' = [name |-> "manual", date |-> NullDate]
  /\ UNCHANGED <<mounted, isLoading, inflight, apiKey, content, parsed>>

\* handleTextSubmit with an empty calories field and no key: the error is set
\* and nothing else happens.
SubmitMissingKey(text) ==
  /\ Gesture
  /\ ~isLoading
  /\ MissingKey(apiKey, <<>>)
  /\ error' = <<MISSING_KEY>>
  /\ lastOp' = [name |-> "nokey", date |-> NullDate]
  /\ UNCHANGED <<mounted, localStorage, dailyGoal, consumedCalories, consumedMacros,
                 log, calorieHistory, isLoading, timers, inflight, apiKey,
                 content, parsed>>

\* handleTextSubmit without a manual value: the request is sent.
SubmitAI(text) ==
  /\ Gesture
  /\ ~isLoading
  /\ ~MissingKey(apiKey, <<>>)
  /\ isLoading' = TRUE
  /\ error' = NoError
  /\ inflight' = <<Pending("estimate", text, FALSE, <<>>, <<>>)>>
  /\ lastOp' = [name |-> "submit", date |-> NullDate]
  /\ UNCHANGED <<mounted, localStorage, dailyGoal, consumedCalories, consumedMacros,
                 log, calorieHistory, timers, apiKey, content, parsed>>

\* handleImageUpload: a file is chosen, with text in the meal input and
\* manualCalories in the calories field; the resizing starts.
handleImageUpload(text, manualCalories) ==
  /\ Gesture
  /\ ~isLoading
  /\ Len(log) < MaxLog
  /\ isLoading' = TRUE
  /\ inflight' = <<Pending("resize", text, TRUE, manualCalories, <<>>)>>
  /\ lastOp' = [name |-> "upload", date |-> NullDate]
  /\ UNCHANGED <<mounted, localStorage, dailyGoal, consumedCalories, consumedMacros,
                 log, calorieHistory, timers, error, apiKey, content, parsed>>

\* resizeImage rejects.
ResizeFail ==
  /\ mounted
  /\ Awaiting("resize")
  /\ error' = <<FAILED_TO_PROCESS_IMAGE>>
  /\ isLoading' = FALSE
  /\ inflight' = <<>>
  /\ lastOp' = [name |-> "resizefail", date |-> NullDate]
  /\ UNCHANGED <<now, mounted, localStorage, dailyGoal, consumedCalories,
                 consumedMacros, log, calorieHistory, timers, apiKey, content,
                 parsed>>

\* Variant: the missing-key return leaves the loading flag as it is.
ImageMissingKeyKeepsLoading ==
  /\ mounted
  /\ Awaiting("resize")
  /\ MissingKey(apiKey, inflight[1].manualCalories)
  /\ error' = <<MISSING_KEY>>
  /\ inflight' = <<>>
  /\ lastOp' = [name |-> "nokey", date |-> NullDate]
  /\ UNCHANGED <<now, mounted, localStorage, dailyGoal, consumedCalories,
                 consumedMacros, log, calorieHistory, isLoading, timers, apiKey,
                 content, parsed>>

\* The image is resized; handleMealSubmit finds no key and an empty field.
ImageMissingKey ==
  /\ mounted
  /\ Awaiting("resize")
  /\ MissingKey(apiKey, inflight[1].manualCalories)
  /\ error' = <<MISSING_KEY>>
  /\ isLoading' = FALSE
  /\ inflight' = <<>>
  /\ lastOp' = [name |-> "nokey", date |-> NullDate]
  /\ UNCHANGED <<now, mounted, localStorage, dailyGoal, consumedCalories,
                 consumedMacros, log, calorieHistory, timers, apiKey, content,
                 parsed>>

\* The image is resized; the field holds a number, and either there is text
\* or generateMealDescriptionFromImage returns null for want of a key: the
\* entry is logged without a request.
ImageManual ==
  /\ mounted
  /\ Awaiting("resize")
  /\ ManualValue(inflight[1].manualCalories)
  /\ inflight[1].text # "" \/ ~apiKey
  /\ Len(log) < MaxLog
  /\ LET caloriesNum == ClampCalories(inflight[1].manualCalories[1])
         newEntry == NewEntry(now, 0, EntryText(inflight[1].text, TRUE), caloriesNum,
                              ZeroMacros)
     IN  Commit(AddInto(State, newEntry), {"log"}, timers, now)
  /\ error' = NoError
  /\ isLoading' = FALSE
  /\ inflight' = <<>>
  /\ lastOp' = [name |-> "manual", date |-> NullDate]
  /\ UNCHANGED <<now, mounted, apiKey, content, parsed>>

\* The image is resized; the field holds a number, there is no text and the key
\* is configured: the description request is sent.
ImageManualDescribe ==
  /\ mounted
  /\ Awaiting("resize")
  /\ ManualValue(inflight[1].manualCalories)
  /\ inflight[1].text = "" /\ apiKey
  /\ LET caloriesNum == ClampCalories(inflight[1].manualCalories[1])
     IN  inflight' = <<[inflight[1] EXCEPT
                          !.phase = "describe",
                          !.data = <<[calories |-> caloriesNum, macros |-> ZeroMacros]>>]>>
  /\ error' = NoError
  /\ lastOp' = [name |-> "describe", date |-> NullDate]
  /\ UNCHANGED <<now, mounted, localStorage, dailyGoal, consumedCalories,
                 consumedMacros, log, calorieHistory, isLoading, timers, apiKey,
                 content, parsed>>

\* The image is resized; no manual value: the estimation request is sent.
ImageEstimate ==
  /\ mounted
  /\ Awaiting("resize")
  /\ ~MissingKey(apiKey, inflight[1].manualCalories)
  /\ ~ManualValue(inflight[1].manualCalories)
  /\ inflight' = <<[inflight[1] EXCEPT !.phase = "estimate"]>>
  /\ error' = NoError
  /\ lastOp' = [name |-> "submit", date |-> NullDate]
  /\ UNCHANGED <<now, mounted, localStorage, dailyGoal, consumedCalories,
                 consumedMacros, log, calorieHistory, isLoading, timers, apiKey,
                 content, parsed>>

\* An image submitted without text gets its entry text from the description
\* endpoint.
NeedsDescription(pending) == pending.image /\ pending.text = ""

\* The estimation response arrives and parses to nutritionData: the entry is
\* logged.
EstimateOk(nutritionData) ==
  /\ mounted
  /\ Awaiting("estimate")
  /\ ~NeedsDescription(inflight[1])
  /\ Len(log) < MaxLog
  /\ LET newEntry == NewEntry(now, 0, EntryText(inflight[1].text, inflight[1].image),
                              nutritionData.calories, nutritionData.macros)
     IN  Commit(AddInto(State, newEntry), {"log", "consumedMacros"}, timers, now)
  /\ isLoading' = FALSE
  /\ inflight' = <<>>
  /\ lastOp' = [name |-> "estimate", date |-> NullDate]
  /\ UNCHANGED <<now, mounted, error, apiKey, content, parsed>>

\* The estimation response of an image without text parses to nutritionData:
\* the description request is sent.
EstimateOkDescribe(nutritionData) ==
  /\ mounted
  /\ Awaiting("estimate")
  /\ NeedsDescription(inflight[1])
  /\ inflight' = <<[inflight[1] EXCEPT !.phase = "describe", !.data = <<nutritionData>>]>>
  /\ lastOp' = [name |-> "describe", date |-> NullDate]
  /\ UNCHANGED <<now, mounted, localStorage, dailyGoal, consumedCalories,
                 consumedMacros, log, calorieHistory, isLoading, timers, error, apiKey,
                 content, parsed>>

\* generateMealDescriptionFromImage returns description (<<>> for null, on any
\* failure or on the fallback answer): the entry is logged.
DescribeDone(description) ==
  /\ mounted
  /\ Awaiting("describe")
  /\ Len(log) < MaxLog
  /\ LET entryText == IF description # <<>> THEN description[1] ELSE MEAL_FROM_IMAGE
         data == inflight[1].data[1]
         newEntry == NewEntry(now, 0, entryText, data.calories, data.macros)
         refs == IF ManualValue(inflight[1].manualCalories)
                 THEN {"log"} ELSE {"log", "consumedMacros"}
     IN  Commit(AddInto(State, newEntry), refs, timers, now)
  /\ isLoading' = FALSE
  /\ inflight' = <<>>
  /\ lastOp' = [name |-> "described", date |-> NullDate]
  /\ UNCHANGED <<now, mounted, error, apiKey, content, parsed>>

\* Variant: the failure sets no message.
EstimateFailSilently(message) ==
  /\ mounted
  /\ Awaiting("estimate")
  /\ isLoading' = FALSE
  /\ inflight' = <<>>
  /\ lastOp' = [name |-> "fail", date |-> NullDate]
  /\ UNCHANGED <<now, mounted, localStorage, dailyGoal, consumedCalories,
                 consumedMacros, log, calorieHistory, timers, error, apiKey,
                 content, parsed>>

\* The estimation request fails (transport error, non-success response, empty
\* content, or content that does not parse): the message is set, nothing is
\* logged.
EstimateFail(message) ==
  /\ mounted
  /\ Awaiting("estimate")
  /\ error' = <<message>>
  /\ isLoading' = FALSE
  /\ inflight' = <<>>
  /\ lastOp' = [name |-> "fail", date |-> NullDate]
  /\ UNCHANGED <<now, mounted, localStorage, dailyGoal, consumedCalories,
                 consumedMacros, log, calorieHistory, timers, apiKey, content,
                 parsed>>

\* 'Could not parse calorie estimate from response: ' + choice: the error is
\* the two parts of the message.
CouldNotParse(choice) == <<COULD_NOT_PARSE, choice>>

\* The content did not parse: the message with the content is set, nothing is
\* logged.
ParseFail(choice) ==
  /\ mounted
  /\ Awaiting("estimate")
  /\ error' = CouldNotParse(choice)
  /\ isLoading' = FALSE
  /\ inflight' = <<>>
  /\ lastOp' = [name |-> "fail", date |-> NullDate]
  /\ UNCHANGED <<now, mounted, localStorage, dailyGoal, consumedCalories,
                 consumedMacros, log, calorieHistory, timers, apiKey, content,
                 parsed>>

\* The content of the estimation response goes through the parser.
EstimateParsed(choice) ==
  /\ Awaiting("estimate")
  /\ LET nutritionData == parseNutritionFromResponse(choice)
     IN  nutritionData # <<>> /\ EstimateOk(nutritionData[1])

EstimateParsedDescribe(choice) ==
  /\ Awaiting("estimate")
  /\ LET nutritionData == parseNutritionFromResponse(choice)
     IN  nutritionData # <<>> /\ EstimateOkDescribe(nutritionData[1])

EstimateUnparsed(choice) ==
  /\ Awaiting("estimate")
  /\ parseNutritionFromResponse(choice) = <<>>
  /\ ParseFail(choice)

\* The ids of the entries the log view shows: the sentinel entries are hidden.
ShownIds == {log[i].id : i \in {j \in 1..Len(log) : ~IsReset(log[j])}}

\* Variant: the entry is removed from the log, the totals are left as they are.
DeleteFromLogOnly(st, entryId) ==
  [st EXCEPT !.log = SelectSeq(@, LAMBDA e : e.id # entryId)]

\* The setters of handleDeleteLogEntry, for an id found in the log.
DeleteFrom(st, entryId) ==
  LET entryToDelete == FindFirst(SelectSeq(st.log, LAMBDA e : e.id = entryId))[1]
  IN  [st EXCEPT !.consumedCalories = @ - entryToDelete.calories,
                 !.consumedMacros =
                    [carbs |-> @.carbs - entryToDelete.macros.carbs,
                     protein |-> @.protein - entryToDelete.macros.protein,
                     fat |-> @.fat - entryToDelete.macros.fat],
                 !.log = SelectSeq(@, LAMBDA e : e.id # entryId)]

handleDeleteLogEntry(entryId) ==
  /\ Gesture
  /\ entryId \in ShownIds
  /\ Commit(DeleteFrom(State, entryId), {"log", "consumedMacros"}, timers, now')
  /\ lastOp' = [name |-> "delete", date |-> NullDate]
  /\ UNCHANGED <<mounted, isLoading, inflight, error, apiKey, content, parsed>>

\* Variant: the clone is logged, the macro totals are left as they are.
DuplicateIntoCaloriesOnly(st, entry, t) ==
  LET newEntry == NewEntry(t, 1, entry.text, entry.calories, entry.macros)
  IN  [st EXCEPT !.log = @ \o <<newEntry>>,
                 !.consumedCalories = @ + newEntry.calories]

\* Variant: the clone keeps the id of the entry it was made from.
DuplicateIntoSameId(st, entry, t) ==
  LET newEntry == [entry EXCEPT !.timestamp = t]
  IN  [st EXCEPT !.log = @ \o <<newEntry>>,
                 !.consumedCalories = @ + newEntry.calories,
                 !.consumedMacros =
                    [carbs |-> @.carbs + newEntry.macros.carbs,
                     protein |-> @.protein + newEntry.macros.protein,
                     fat |-> @.fat + newEntry.macros.fat]]

\* The clone both duplicate handlers make: a new id with a random suffix.
DuplicateInto(st, entry, t) ==
  LET newEntry == NewEntry(t, 1, entry.text, entry.calories, entry.macros)
  IN  [st EXCEPT !.log = @ \o <<newEntry>>,
                 !.consumedCalories = @ + newEntry.calories,
                 !.consumedMacros =
                    [carbs |-> @.carbs + newEntry.macros.carbs,
                     protein |-> @.protein + newEntry.macros.protein,
                     fat |-> @.fat + newEntry.macros.fat]]

handleDuplicateLogEntry(entryId) ==
  /\ Gesture
  /\ entryId \in ShownIds
  /\ Len(log) < MaxLog
  /\ LET entryToDuplicate == FindFirst(SelectSeq(log, LAMBDA e : e.id = entryId))[1]
     IN  Commit(DuplicateInto(State, entryToDuplicate, now'),
                {"log", "consumedMacros"}, timers, now')
  /\ lastOp' = [name |-> "duplicate", date |-> NullDate]
  /\ UNCHANGED <<mounted, isLoading, inflight, error, apiKey, content, parsed>>

\* The entries the history view shows, each with a duplicate button.
ShownHistoryEntries ==
  UNION {{calorieHistory[d].mealLog[i] :
            i \in {j \in 1..Len(calorieHistory[d].mealLog) :
                     ~IsReset(calorieHistory[d].mealLog[j])}} :
         d \in 1..Len(calorieHistory)}

handleDuplicateFromHistory(entry) ==
  /\ Gesture
  /\ entry \in ShownHistoryEntries
  /\ Len(log) < MaxLog
  /\ Commit(DuplicateInto(State, entry, now'), {"log", "consumedMacros"}, timers, now')
  /\ lastOp' = [name |-> "duplicateFromHistory", date |-> NullDate]
  /\ UNCHANGED <<mounted, isLoading, inflight, error, apiKey, content, parsed>>

\* parseInt(inputValue, 10) of the goal input, a sequence of characters: <<>>
\* is NaN, <<n>> the number n.
ParseGoal(inputValue) == ParseIntRadix(inputValue, TRUE)

\* Variant: the goal recorded in the history entries is rewritten too.
GoalChangeRetroactive(st, inputValue) ==
  LET newGoal == ParseGoal(inputValue)
  IN  IF inputValue # <<>> /\ newGoal # <<>> /\ newGoal[1] > 0
      THEN [st EXCEPT !.dailyGoal = newGoal[1],
                      !.calorieHistory =
                         [i \in 1..Len(@) |->
                            [@[i] EXCEPT !.dailyGoalAtTheTime = newGoal[1]]]]
      ELSE st

\* Variant: every input that parses to a number replaces dailyGoal.
GoalChangeAnyNumber(st, inputValue) ==
  LET newGoal == ParseGoal(inputValue)
  IN  IF inputValue # <<>> /\ newGoal # <<>>
      THEN [st EXCEPT !.dailyGoal = newGoal[1]] ELSE st

\* The setter of handleDailyGoalChange: a positive parsed goal replaces dailyGoal.
GoalChange(st, inputValue) ==
  LET newGoal == ParseGoal(inputValue)
  IN  IF inputValue # <<>> /\ newGoal # <<>> /\ newGoal[1] > 0
      THEN [st EXCEPT !.dailyGoal = newGoal[1]] ELSE st

handleDailyGoalChange(inputValue) ==
  /\ Gesture
  /\ LET new == GoalChange(State, inputValue)
     IN  Commit(new, {}, timers, now')
  /\ lastOp' = [name |-> "goal", date |-> NullDate, input |-> inputValue]
  /\ UNCHANGED <<mounted, isLoading, inflight, error, apiKey, content, parsed>>

\* ------------------------------------------------------------ display
\* {consumedCalories} kcal consumed.
ConsumedShown(st) == st.consumedCalories

\* Variant: the remaining value is not held at 0.
RemainingShownUnclamped(st) == st.dailyGoal - st.consumedCalories

\* {Math.max(0, dailyGoal - consumedCalories)} kcal remaining.
RemainingShown(st) ==
  IF st.dailyGoal - st.consumedCalories > 0
  THEN st.dailyGoal - st.consumedCalories ELSE 0

\* Math.min((consumedCalories / dailyGoal) * 100, 100) for a positive goal, as
\* the fraction num / den.
progressPercentage(st) ==
  IF st.consumedCalories * 100 < 100 * st.dailyGoal
  THEN [num |-> st.consumedCalories * 100, den |-> st.dailyGoal]
  ELSE [num |-> 100, den |-> 1]

\* progressPercentage > 5 ? progressPercentage.toFixed(0) + '%' : '': <<>> is
\* the empty label, <<n>> the label n%. toFixed(0) rounds to the nearest
\* integer, a half upwards.
ProgressLabel(st) ==
  LET p == progressPercentage(st)
  IN  IF p.num > 5 * p.den
      THEN <<(2 * p.num + p.den) \div (2 * p.den)>>
      ELSE <<>>

Next ==
  \/ Startup
  \/ Close
  \/ Tick
  \/ \E tm \in timers : FireTimer(tm)
  \/ \E text \in MealTexts : \E c \in ManualCalories : SubmitManual(text, c)
  \/ \E text \in EstimatedTexts : SubmitAI(text)
  \/ \E n \in Nutrition : EstimateOk(n)
  \/ EstimateFail(FAILED_TO_FETCH)
  \/ \E id \in ShownIds : handleDeleteLogEntry(id)
  \/ \E id \in ShownIds : handleDuplicateLogEntry(id)
  \/ \E entry \in ShownHistoryEntries : handleDuplicateFromHistory(entry)
  \/ \E inputValue \in GoalInputs : handleDailyGoalChange(inputValue)

Spec == Init /\ [][Next]_vars

\* ------------------------------------------------- submissions in a day
\* The submissions of one day, in a build with or without the key.
SubmitInit ==
  /\ PageNotLoaded
  /\ apiKey \in BOOLEAN
  /\ content = <<>>
  /\ parsed = <<>>

SubmitNext ==
  \/ Startup
  \/ \E text \in EstimatedTexts : \E c \in ManualValues : SubmitManual(text, c)
  \/ \E text \in EstimatedTexts : SubmitMissingKey(text)
  \/ \E text \in EstimatedTexts : SubmitAI(text)
  \/ \E text \in ImageTexts :
       \E manualCalories \in {<<>>} \cup {<<c>> : c \in ManualCalories} :
         handleImageUpload(text, manualCalories)
  \/ ResizeFail
  \/ ImageMissingKey
  \/ ImageManual
  \/ ImageManualDescribe
  \/ ImageEstimate
  \/ \E choice \in Choices : EstimateParsed(choice)
  \/ \E choice \in Choices : EstimateParsedDescribe(choice)
  \/ \E choice \in Choices : EstimateUnparsed(choice)
  \/ \E message \in FailureMessages : EstimateFail(message)
  \/ \E description \in Descriptions : DescribeDone(description)

SubmitSpec == SubmitInit /\ [][SubmitNext]_vars

\* What the parser makes of the contents the endpoint answers with.
ParsedChoices ==
  {parseNutritionFromResponse(choice)[1] :
     choice \in {c \in Choices : parseNutritionFromResponse(c) # <<>>}}

UnparsedChoices == {c \in Choices : parseNutritionFromResponse(c) = <<>>}

\* The steps of SubmitNext that end an asynchronous wait of a submission: the
\* image is resized or not, a request is answered or fails.
Settle ==
  /\ inflight # <<>>
  /\ \/ ResizeFail
     \/ ImageMissingKey
     \/ ImageManual
     \/ ImageManualDescribe
     \/ ImageEstimate
     \/ \E nutritionData \in ParsedChoices : EstimateOk(nutritionData)
     \/ \E nutritionData \in ParsedChoices : EstimateOkDescribe(nutritionData)
     \/ \E choice \in UnparsedChoices : ParseFail(choice)
     \/ \E message \in FailureMessages : EstimateFail(message)
     \/ \E description \in Descriptions : DescribeDone(description)

\* Every wait ends: promises settle.
FairSubmitSpec == SubmitSpec /\ WF_vars(Settle)

\* --------------------------------------------------- the parser applied
ParserInit ==
  /\ PageNotLoaded
  /\ apiKey = TRUE
  /\ content \in {<<responseText>> : responseText \in ResponseTexts}
  /\ parsed = <<>>

\* parseNutritionFromResponse is applied to the response text.
Parse ==
  /\ parsed = <<>>
  /\ parsed' = <<parseNutritionFromResponse(content[1])>>
  /\ lastOp' = [name |-> "parse", date |-> NullDate]
  /\ UNCHANGED <<now, mounted, localStorage, dailyGoal, consumedCalories,
                 consumedMacros, log, calorieHistory, isLoading, timers, inflight,
                 error, apiKey, content>>

ParserSpec == ParserInit /\ [][Parse]_vars

\* ------------------------------------------- a response and its handling
\* A text submission answered by the endpoint with one of the response texts.
ResponseInit ==
  /\ PageNotLoaded
  /\ apiKey = TRUE
  /\ content \in {<<responseText>> : responseText \in ResponseTexts}
  /\ parsed = <<>>

ResponseNext ==
  \/ Startup
  \/ \E text \in EstimatedTexts : SubmitAI(text)
  \/ EstimateParsed(content[1])
  \/ EstimateUnparsed(content[1])

ResponseSpec == ResponseInit /\ [][ResponseNext]_vars

\* ------------------------------------------- overlapping submissions
\* handleMealSubmit itself never looks at isLoading: only the disabled
\* controls of the page keep a second call from starting while one is
\* awaited.  The actions below are the handler without that protection of
\* the page, with up to MaxOverlap calls awaiting their responses.
MaxOverlap == 2
OverlapTexts == {"toast", "salad"}

\* The sequence s without its i-th element.
RemoveAt(s, i) == SubSeq(s, 1, i - 1) \o SubSeq(s, i + 1, Len(s))

\* handleMealSubmit(text) up to its fetch, whatever isLoading is.
OverlapSubmit(text) ==
  /\ Gesture
  /\ ~MissingKey(apiKey, <<>>)
  /\ Len(inflight) < MaxOverlap
  /\ Len(log) + Len(inflight) < MaxLog
  /\ isLoading' = TRUE
  /\ error' = NoError
  /\ inflight' = Append(inflight, Pending("estimate", text, FALSE, <<>>, <<>>))
  /\ lastOp' = [name |-> "submit", date |-> NullDate]
  /\ UNCHANGED <<mounted, localStorage, dailyGoal, consumedCalories, consumedMacros,
                 log, calorieHistory, timers, apiKey, content, parsed>>

\* The response of the i-th awaited call parses to nutritionData: the rest
\* of that call runs.
OverlapEstimateOk(i, nutritionData) ==
  /\ mounted
  /\ i \in 1..Len(inflight)
  /\ LET newEntry == NewEntry(now, 0, EntryText(inflight[i].text, inflight[i].image),
                              nutritionData.calories, nutritionData.macros)
     IN  Commit(AddInto(State, newEntry), {"log", "consumedMacros"}, timers, now)
  /\ isLoading' = FALSE
  /\ inflight' = RemoveAt(inflight, i)
  /\ lastOp' = [name |-> "estimate", date |-> NullDate]
  /\ UNCHANGED <<now, mounted, error, apiKey, content, parsed>>

\* The request of the i-th awaited call fails.
OverlapEstimateFail(i) ==
  /\ mounted
  /\ i \in 1..Len(inflight)
  /\ error' = <<FAILED_TO_FETCH>>
  /\ isLoading' = FALSE
  /\ inflight' = RemoveAt(inflight, i)
  /\ lastOp' = [name |-> "fail", date |-> NullDate]
  /\ UNCHANGED <<now, mounted, localStorage, dailyGoal, consumedCalories,
                 consumedMacros, log, calorieHistory, timers, apiKey, content,
                 parsed>>

OverlapNext ==
  \/ Startup
  \/ Tick
  \/ \E tm \in timers : FireTimer(tm)
  \/ \E text \in OverlapTexts : OverlapSubmit(text)
  \/ \E i \in 1..MaxOverlap : \E n \in Nutrition : OverlapEstimateOk(i, n)
  \/ \E i \in 1..MaxOverlap : OverlapEstimateFail(i)

OverlapSpec == Init /\ [][OverlapNext]_vars

\* ------------------------------------------------------------- claims
\* The history localStorage holds.
StoredHistory(ls) ==
  IF ls.calorieHistory = NoItem THEN <<>> ELSE JSONparse(ls.calorieHistory)

\* The stored log.
StoredLog(ls) ==
  IF ls.calorieLog = NoItem THEN <<>> ELSE JSONparse(ls.calorieLog)

CountDate(h, d) == Cardinality({i \in 1..Len(h) : h[i].date = d})

NonSentinel(l) == SelectSeq(l, LAMBDA e : ~IsReset(e))

RECURSIVE SumCalories(_)
SumCalories(l) == IF l = <<>> THEN 0 ELSE Head(l).calories + SumCalories(Tail(l))

StrictlyDescending(h) == \A i \in 1..(Len(h) - 1) : h[i].date > h[i + 1].date

\* C1: after a startup check that archived a date, a second startup check
\* reading the storage the first one left, at the same or any later instant,
\* leaves the history exactly as it is, in memory and in storage, with exactly
\* one entry for the archived date.
C1_RolloverIdempotent ==
  (lastOp.name = "startup" /\ lastOp.date # NullDate) =>
     \A t2 \in now..MaxTime :
        LET second == StartupRun(localStorage, t2)
        IN  /\ second.st.calorieHistory = calorieHistory
            /\ StoredHistory(second.ls) = StoredHistory(localStorage)
            /\ CountDate(second.st.calorieHistory, lastOp.date) = 1

C1_Witness ==
  /\ lastOp.name = "startup"
  /\ lastOp.date # NullDate
  /\ Len(calorieHistory) >= 2

\* C2: in every reachable state the history, in memory and in storage, is in
\* strictly descending date order (so no two entries share a date); and a step
\* that archives a date leaves exactly one entry for it and keeps every entry
\* of the other dates.
HistorySorted ==
  /\ StrictlyDescending(calorieHistory)
  /\ StrictlyDescending(StoredHistory(localStorage))

ReplacesOld ==
  LET old == StoredHistory(localStorage)
      new == StoredHistory(localStorage')
  IN  lastOp'.date # NullDate =>
        /\ CountDate(new, lastOp'.date) = 1
        /\ \A i \in 1..Len(old) :
              old[i].date # lastOp'.date => \E j \in 1..Len(new) : new[j] = old[i]
        /\ Len(new) = Len(old) + (IF CountDate(old, lastOp'.date) = 0 THEN 1 ELSE 0)

C3_StartupRollover ==
  [][ (/\ lastOp'.name = "startup"
       /\ NonSentinel(StoredLog(localStorage)) # <<>>
       /\ \E D \in 0..(getFormattedDate(now) - 1) :
             \A i \in 1..Len(StoredLog(localStorage)) :
                ~IsReset(StoredLog(localStorage)[i])
                  => getFormattedDate(StoredLog(localStorage)[i].timestamp) = D)
      =>
      LET stored == NonSentinel(StoredLog(localStorage))
          D == getFormattedDate(stored[1].timestamp)
          T == JSONparse(localStorage.consumedCalories)
          G == JSONparse(localStorage.dailyGoal)
      IN  /\ CountDate(calorieHistory', D) = 1
          /\ \E i \in 1..Len(calorieHistory') :
                calorieHistory'[i] = [date |-> D, totalCalories |-> T,
                                      mealLog |-> stored, dailyGoalAtTheTime |-> G]
          /\ Len(log') = 1
          /\ log'[1].text = RESET_TEXT
          /\ log'[1].calories = 0
          /\ consumedCalories' = 0
          /\ consumedMacros' = [carbs |-> 0, protein |-> 0, fat |-> 0]
          /\ dailyGoal' = G
          /\ localStorage' =
               [dailyGoal |-> <<G>>, consumedCalories |-> <<0>>,
                consumedMacros |-> <<[carbs |-> 0, protein |-> 0, fat |-> 0]>>,
                calorieLog |-> <<log'>>, calorieHistory |-> <<calorieHistory'>>]
    ]_vars

C3_Witness ==
  /\ lastOp.name = "startup"
  /\ lastOp.date # NullDate
  /\ \E i \in 1..Len(calorieHistory) :
        /\ calorieHistory[i].date = lastOp.date
        /\ calorieHistory[i].totalCalories > 0
        /\ calorieHistory[i].mealLog # <<>>
        /\ calorieHistory[i].dailyGoalAtTheTime # DEFAULT_DAILY_GOAL

\* C4: whenever the page is loaded and no midnight callback is due, every
\* non-sentinel entry of the log has a timestamp on the current date, and
\* consumedCalories is the sum over the log's entries of the current date.
C4_LogReflectsToday ==
  (mounted /\ NoTimerDue) =>
     /\ \A i \in 1..Len(log) :
           ~IsReset(log[i])
             => getFormattedDate(log[i].timestamp) = getFormattedDate(now)
     /\ consumedCalories =
          SumCalories(SelectSeq(log, LAMBDA e :
                        getFormattedDate(e.timestamp) = getFormattedDate(now)))

\* C5: after every firing a timer is pending for the following midnight, and
\* while the page is loaded a timer is pending for the next midnight at the
\* latest, so every midnight has a callback.
C5_TimerRearmed ==
  /\ lastOp.name = "fire"
       => \E tm \in timers : tm.fireAt = (now \div DayLen + 1) * DayLen
  /\ mounted => \E tm \in timers : tm.fireAt <= (now \div DayLen + 1) * DayLen

\* A callback has fired at the second midnight.
C5_Witness == lastOp.name = "fire" /\ now = 2 * DayLen

\* C6: at every moment at most one midnight timer is pending.
C6_OneTimerPending == Cardinality(timers) <= 1

\* C7: a firing that archives does so under the date of the day that is
\* ending, with the consumedCalories, the dailyGoal and the log's non-sentinel
\* entries of the state at the moment of firing; and every firing leaves a
\* single sentinel entry and zero totals.
C7_FiringArchivesCurrent ==
  [][ lastOp'.name = "fire" =>
        /\ lastOp'.date # NullDate =>
             /\ lastOp'.date = getFormattedDate(now) - 1
             /\ \E i \in 1..Len(calorieHistory') :
                   /\ calorieHistory'[i].date = lastOp'.date
                   /\ calorieHistory'[i].totalCalories = consumedCalories
                   /\ NonSentinel(calorieHistory'[i].mealLog) = NonSentinel(log)
                   /\ calorieHistory'[i].dailyGoalAtTheTime = dailyGoal
        /\ Len(log') = 1
        /\ log'[1].text = RESET_TEXT
        /\ consumedCalories' = 0
        /\ consumedMacros' = [carbs |-> 0, protein |-> 0, fat |-> 0]
    ]_vars

\* C8: a firing at the end of a day with no logged meal (consumedCalories is
\* 0 and the log is empty or holds only sentinel entries) leaves the history
\* unchanged.
C8_EmptyDayNotArchived ==
  [][ (/\ lastOp'.name = "fire"
       /\ consumedCalories = 0
       /\ \A i \in 1..Len(log) : log[i].text = RESET_TEXT /\ log[i].calories = 0)
      => calorieHistory' = calorieHistory ]_vars

\* C9: no mealLog of a history entry, in memory or in storage, holds a
\* sentinel entry (an entry the rollover itself created: the marker text with
\* zero calories).
C9_NoSentinelInHistory ==
  \A h \in {calorieHistory, StoredHistory(localStorage)} :
     \A i \in 1..Len(h) : \A j \in 1..Len(h[i].mealLog) :
        ~(h[i].mealLog[j].text = RESET_TEXT /\ h[i].mealLog[j].calories = 0)

\* C10: every history entry, in memory and in storage, has totalCalories equal
\* to the sum of the calories of the entries of its mealLog.
C10_TotalIsSumOfMealLog ==
  \A h \in {calorieHistory, StoredHistory(localStorage)} :
     \A i \in 1..Len(h) : h[i].totalCalories = SumCalories(h[i].mealLog)


\* C11: adding an entry and then deleting it by its id gives back the log,
\* consumedCalories and consumedMacros of before the add: for the entry an
\* arriving estimate would log now, and for the entry a manual submission
\* would log at the next instant.
RoundTrip(newEntry) ==
  LET after == DeleteFrom(AddInto(State, newEntry), newEntry.id)
  IN  /\ after.log = log
      /\ after.consumedCalories = consumedCalories
      /\ after.consumedMacros = consumedMacros

C11_AddDeleteRoundTrip ==
  /\ (mounted /\ inflight # <<>>) =>
        \A n \in Nutrition :
           RoundTrip(NewEntry(now, 0, inflight[1].text, n.calories, n.macros))
  /\ (mounted /\ ~isLoading) =>
        \A text \in MealTexts : \A c \in ManualCalories :
           RoundTrip(NewEntry(now + 1, 0, text, c, ZeroMacros))

\* C12: a duplication from history appends one entry to the log, a clone of a
\* history entry, adds that entry's calories and macros to the totals, and
\* leaves the history unchanged in memory and in storage.
C12_DuplicateFromHistory ==
  [][ lastOp'.name = "duplicateFromHistory" =>
        /\ Len(log') = Len(log) + 1
        /\ SubSeq(log', 1, Len(log)) = log
        /\ \E entry \in ShownHistoryEntries :
              /\ log'[Len(log')].text = entry.text
              /\ log'[Len(log')].calories = entry.calories
              /\ log'[Len(log')].macros = entry.macros
              /\ consumedCalories' = consumedCalories + entry.calories
              /\ consumedMacros' =
                   [carbs |-> consumedMacros.carbs + entry.macros.carbs,
                    protein |-> consumedMacros.protein + entry.macros.protein,
                    fat |-> consumedMacros.fat + entry.macros.fat]
        /\ calorieHistory' = calorieHistory
        /\ StoredHistory(localStorage') = StoredHistory(localStorage)
    ]_vars

\* An estimated entry, with macros, was duplicated from history.
C12_Witness ==
  /\ lastOp.name = "duplicateFromHistory"
  /\ log # <<>>
  /\ log[Len(log)].macros # ZeroMacros

\* C14: no two entries of the log share an id.
C14_UniqueIds ==
  \A i \in 1..Len(log) : \A j \in 1..Len(log) : i # j => log[i].id # log[j].id

\* C15: a goal change leaves the history (every entry's dailyGoalAtTheTime
\* included), the log and the totals as they are, in memory and in storage,
\* and sets dailyGoal to the parsed input when that is positive.
C15_GoalChangeFrame ==
  [][ lastOp'.name = "goal" =>
        /\ calorieHistory' = calorieHistory
        /\ StoredHistory(localStorage') = StoredHistory(localStorage)
        /\ log' = log
        /\ consumedCalories' = consumedCalories
        /\ consumedMacros' = consumedMacros
        /\ dailyGoal' \in {dailyGoal, 600}
    ]_vars

\* The goal was changed after a day was archived under the default goal.
C15_Witness ==
  /\ lastOp.name = "goal"
  /\ dailyGoal # DEFAULT_DAILY_GOAL
  /\ \E i \in 1..Len(calorieHistory) :
        calorieHistory[i].dailyGoalAtTheTime = DEFAULT_DAILY_GOAL

\* C13: every entry add or duplicate puts into the log has calories >= 0 and
\* carbs, protein and fat each >= 0, whatever the AI service returns and
\* whatever manual value is entered.
C13_EntriesNonNegative ==
  \A i \in 1..Len(log) :
    /\ log[i].calories >= 0
    /\ log[i].macros.carbs >= 0
    /\ log[i].macros.protein >= 0
    /\ log[i].macros.fat >= 0

\* A request to the estimation or the description endpoint is awaited.
RequestPending(f) == f # <<>> /\ f[1].phase \in {"estimate", "describe"}

\* The step sends a request to one of the endpoints.
SendsRequest ==
  /\ RequestPending(inflight')
  /\ inflight = <<>> \/ inflight[1].phase # inflight'[1].phase

\* The step leaves the log, the totals and the history as they are.
DataUnchanged ==
  UNCHANGED <<log, consumedCalories, consumedMacros, calorieHistory, localStorage>>

\* C16: with no API credential configured no submission ever sends a request:
\* a submission either sets the missing-credential error (log and totals
\* unchanged), fails to read its image, or logs the entry from the manual value.
C16_NoKeyNoRequest ==
  [][~apiKey =>
       /\ ~SendsRequest
       /\ ~RequestPending(inflight')
       /\ lastOp'.name \in {"startup", "upload", "nokey", "manual", "resizefail"}
       /\ lastOp'.name = "nokey" =>
            error' = <<MISSING_KEY>> /\ DataUnchanged /\ inflight' = <<>>
       /\ lastOp'.name = "manual" =>
            /\ log' = <<log'[1]>> \o log
            /\ log'[1].calories \in {ClampCalories(c) : c \in ManualValues}
            /\ consumedCalories' = consumedCalories + log'[1].calories
            /\ inflight' = <<>>]_vars

\* Without a key, an image was logged from its manual value and a later
\* submission with an empty field got the missing-credential error.
C16_Witness ==
  /\ ~apiKey
  /\ lastOp.name = "nokey"
  /\ error = <<MISSING_KEY>>
  /\ Len(log) = 1
  /\ log[1].text = MEAL_FROM_IMAGE

\* C17: a submission that carries a valid manual calorie value makes no request
\* to the estimation endpoint and none to the description endpoint, for every
\* combination of text and image, with or without a credential.
C17_ManualSkipsNetwork ==
  (inflight # <<>> /\ ManualValue(inflight[1].manualCalories))
    => ~RequestPending(inflight)

\* C18: when an AI-estimated submission fails (transport error, non-success
\* response, empty content, or text the parser cannot parse), exactly one error
\* message is set, the log, consumedCalories, consumedMacros and calorieHistory
\* are unchanged, and no retry request is sent.
C18_NoPartialSuccess ==
  [][(Awaiting("estimate") /\ inflight' # inflight
        /\ lastOp'.name \notin {"estimate", "describe"}) =>
       /\ lastOp'.name = "fail"
       /\ error' \in {<<message>> : message \in FailureMessages}
                     \cup {CouldNotParse(choice) : choice \in Choices}
       /\ DataUnchanged
       /\ inflight' = <<>>
       /\ ~SendsRequest
       /\ ~isLoading']_vars

\* An answer that does not parse came after a meal had been logged: the error
\* is shown and the log still holds that one meal.
C18_Witness ==
  /\ lastOp.name = "fail"
  /\ error \in {CouldNotParse(choice) : choice \in Choices}
  /\ Len(log) = 1
  /\ consumedCalories = log[1].calories
  /\ inflight = <<>>

\* C19: the app never enters a stuck state: every submission, once its waits
\* have ended, leaves the loading flag false, and a submission that is loading
\* gets there.
C19_NeverStuck ==
  /\ [](inflight = <<>> => ~isLoading)
  /\ isLoading ~> (~isLoading /\ inflight = <<>>)

\* An image without text went through the estimation and the description
\* request after an earlier meal, and the inputs are enabled again.
C19_Witness ==
  /\ lastOp.name = "described"
  /\ Len(log) = 2
  /\ ~isLoading
  /\ inflight = <<>>

\* The response text is a JSON object with the four properties.
IsFourFieldRecord(responseText) ==
  /\ responseText.json # <<>>
  /\ responseText.json[1].type = "object"
  /\ {"calories", "carbs", "protein", "fat"} \subseteq DOMAIN responseText.json[1].fields

\* A JSON value coerced to an integer: a number loses its fraction, a string of
\* digits is the number it spells, anything else is 0.
AsInteger(v) ==
  CASE v.type = "number" -> v.trunc
    [] v.type = "string" ->
         IF v.str # <<>> /\ \A k \in 1..Len(v.str) : v.str[k] \in DecDigits
         THEN DigitsToNumber(v.str, 10) ELSE 0
    [] OTHER -> 0

\* C20: for every response text that is a valid structured record with the
\* fields calories, carbs, protein and fat, the parser returns exactly those
\* four values coerced to integers, a non-numeric field becoming 0.
C20_ParserReturnsRecord ==
  (parsed # <<>> /\ IsFourFieldRecord(content[1])) =>
    LET fields == content[1].json[1].fields
    IN  parsed[1] = <<[calories |-> AsInteger(fields.calories),
                       macros |-> [carbs |-> AsInteger(fields.carbs),
                                   protein |-> AsInteger(fields.protein),
                                   fat |-> AsInteger(fields.fat)]]>>

\* The numbers a text has directly before a calorie unit word.
UnitNumbers(tokens) ==
  {DigitsToNumber(tokens[i].digits, 10) :
     i \in {j \in 1..(Len(tokens) - 1) :
              /\ "digits" \in DOMAIN tokens[j]
              /\ "word" \in DOMAIN tokens[j + 1]
              /\ tokens[j + 1].word \in {"kcal", "calories"}}}

\* The result with calories n and all macros 0.
CaloriesOnly(n) == <<[calories |-> n, macros |-> ZeroMacros]>>

\* C21: for every response text that is not a four-field record and contains a
\* number n directly followed by "kcal" or "calories", the parser returns
\* calories = n with all macros 0, also when the text is valid JSON of another
\* shape.
C21_UnitNumberReturned ==
  (parsed # <<>> /\ ~IsFourFieldRecord(content[1])
     /\ UnitNumbers(content[1].tokens) # {}) =>
    \E n \in UnitNumbers(content[1].tokens) : parsed[1] = CaloriesOnly(n)

\* The numbers standing on their own in a text that lie strictly between 0 and
\* 5000.
BareNumbersInRange(tokens) ==
  {n \in {DigitsToNumber(tokens[i].digits, 10) :
            i \in {j \in 1..Len(tokens) :
                     "digits" \in DOMAIN tokens[j] /\ ~tokens[j].glued}} :
     0 < n /\ n < 5000}

\* C22: for every response text that contains a bare number n with
\* 0 < n < 5000 and matches no earlier rule (no four-field record, no number
\* before a unit), a text that is the number alone included, the parser
\* returns calories = n with all macros 0.
C22_BareNumberReturned ==
  (parsed # <<>> /\ ~IsFourFieldRecord(content[1])
     /\ UnitNumbers(content[1].tokens) = {}
     /\ BareNumbersInRange(content[1].tokens) # {}) =>
    \E n \in BareNumbersInRange(content[1].tokens) : parsed[1] = CaloriesOnly(n)

\* C27: when the text is no JSON and has no number before a calorie unit, the
\* parser returns a standalone number strictly between 0 and 5000 whenever the
\* text contains one, also after an out-of-range number, and never a number
\* outside that range.
C27_InRangeNumberFound ==
  (parsed # <<>> /\ content[1].json = <<>> /\ UnitNumbers(content[1].tokens) = {}) =>
    /\ BareNumbersInRange(content[1].tokens) # {} =>
         \E n \in BareNumbersInRange(content[1].tokens) : parsed[1] = CaloriesOnly(n)
    /\ parsed[1] # <<>> => (0 < parsed[1][1].calories /\ parsed[1][1].calories < 5000)

\* A nutrition result: integer calories and macros.
IsNutritionResult(r) ==
  /\ Len(r) = 1
  /\ DOMAIN r[1] = {"calories", "macros"}
  /\ r[1].calories \in Int
  /\ DOMAIN r[1].macros = {"carbs", "protein", "fat"}
  /\ \A name \in DOMAIN r[1].macros : r[1].macros[name] \in Int

\* The text holds no JSON value and no digit.
NoPattern(responseText) ==
  /\ responseText.json = <<>>
  /\ \A i \in 1..Len(responseText.tokens) : "digits" \notin DOMAIN responseText.tokens[i]

\* C23: the parser never throws: for every response text it returns a
\* nutrition result or the failure value; for a text that matches no pattern
\* it returns the failure value, and the caller then sets an error message
\* containing the raw text and logs no entry.
C23_ParserTotal ==
  [][Awaiting("estimate") =>
       LET nutritionData == parseNutritionFromResponse(content[1])
       IN  /\ nutritionData = <<>> \/ IsNutritionResult(nutritionData)
           /\ NoPattern(content[1]) => nutritionData = <<>>
           /\ nutritionData = <<>> =>
                /\ Len(error') = 2
                /\ error'[1] = COULD_NOT_PARSE
                /\ error'[2] = content[1]
                /\ DataUnchanged
                /\ inflight' = <<>>
           /\ nutritionData # <<>> =>
                /\ error' = NoError
                /\ Len(log') = Len(log) + 1
                /\ log'[1].calories = nutritionData[1].calories
                /\ log'[1].macros = nutritionData[1].macros]_vars

\* 'no idea' was answered: the error shows it and nothing is logged.
C23_Witness ==
  /\ lastOp.name = "fail"
  /\ NoPattern(content[1])
  /\ error = CouldNotParse(content[1])
  /\ log = <<>>
  /\ ~isLoading

\* The serialized form of the in-memory state, record by record.
Serialized(st) ==
  [dailyGoal |-> JSONstringify(st.dailyGoal),
   consumedCalories |-> JSONstringify(st.consumedCalories),
   consumedMacros |-> JSONstringify(st.consumedMacros),
   calorieLog |-> JSONstringify(st.log),
   calorieHistory |-> JSONstringify(st.calorieHistory)]

\* C24: after every mutation (add, delete, duplicate, goal change, rollover)
\* has been processed, each durable storage record (dailyGoal,
\* consumedCalories, consumedMacros, calorieLog, calorieHistory) equals the
\* serialized form of the corresponding in-memory state slice.
C24_StorageMatchesState ==
  mounted => localStorage = Serialized(State)

\* A day was archived at midnight, a meal was added on the new day and then
\* the goal was changed.
C24_Witness ==
  /\ mounted
  /\ lastOp.name = "goal"
  /\ dailyGoal # DEFAULT_DAILY_GOAL
  /\ Len(calorieHistory) >= 1
  /\ \E i \in 1..Len(log) : ~IsReset(log[i])
  /\ consumedCalories > 0

\* Every entry of the log was created today.
AllOfToday(l) ==
  \A i \in 1..Len(l) : getFormattedDate(l[i].timestamp) = getFormattedDate(now)

\* C25: with goal g > 0 and entries totalling c calories added today, the
\* displayed consumed value is c, remaining is max(0, g - c) and progress is
\* min(100 * c / g, 100) percent; for g = 2000 and one entry of 300 calories:
\* consumed 300, remaining 1700, progress 15%.
C25_Display ==
  (mounted /\ dailyGoal > 0 /\ AllOfToday(log)) =>
    LET c == SumCalories(log)
        g == dailyGoal
        p == progressPercentage(State)
    IN  /\ ConsumedShown(State) = c
        /\ RemainingShown(State) >= 0
        /\ RemainingShown(State) >= g - c
        /\ RemainingShown(State) \in {0, g - c}
        /\ p.num * g <= 100 * c * p.den
        /\ p.num <= 100 * p.den
        /\ p.num * g = 100 * c * p.den \/ p.num = 100 * p.den
        /\ (g = 2000 /\ c = 300) =>
             /\ ConsumedShown(State) = 300
             /\ RemainingShown(State) = 1700
             /\ p.num = 15 * p.den
             /\ ProgressLabel(State) = <<15>>

\* The goal is 2000 and one entry of 300 calories was added today.
C25_Witness ==
  /\ mounted
  /\ dailyGoal = 2000
  /\ Len(log) = 1
  /\ log[1].calories = 300
  /\ AllOfToday(log)
  /\ ProgressLabel(State) = <<15>>

\* The entries added today exceed the goal: nothing remains, the bar is full.
C25_WitnessOverGoal ==
  /\ mounted
  /\ dailyGoal = 600
  /\ AllOfToday(log)
  /\ SumCalories(log) > 600
  /\ RemainingShown(State) = 0
  /\ ProgressLabel(State) = <<100>>


\* The date of the non-sentinel entry of l with the greatest timestamp.
LatestEntryDate(l) ==
  LET stored == NonSentinel(l)
      latest == CHOOSE i \in 1..Len(stored) :
                  \A j \in 1..Len(stored) : stored[j].timestamp <= stored[i].timestamp
  IN  getFormattedDate(stored[latest].timestamp)

\* C26: the startup check compares today's date with the date of the stored
\* non-sentinel entry of greatest timestamp, whatever order the log is in:
\* a startup archives and resets exactly when that date is not today, and
\* archives under that date.
C26_StartupUsesLatestEntry ==
  [][ (/\ lastOp'.name = "startup"
       /\ NonSentinel(StoredLog(localStorage)) # <<>>)
      =>
      LET latestDate == LatestEntryDate(StoredLog(localStorage))
      IN  lastOp'.date =
            IF latestDate # getFormattedDate(now) THEN latestDate ELSE NullDate
    ]_vars


\* The ids of the entries of l.
IdsOf(l) == {l[i].id : i \in 1..Len(l)}

\* l2 is l with one entry removed or added at either end, l itself, or a
\* lone sentinel entry: no position of l holds a changed entry.
NoEntryEdited(l, l2) ==
  \/ l2 = l
  \/ /\ Len(l2) = Len(l) + 1
     /\ \/ Tail(l2) = l
        \/ SubSeq(l2, 1, Len(l)) = l
  \/ \E entryId \in IdsOf(l) : l2 = SelectSeq(l, LAMBDA e : e.id # entryId)
  \/ /\ Len(l2) = 1
     /\ IsReset(l2[1])

\* C28: duplicating an entry of the log adds exactly one entry with the same
\* text, calories and macros, an id no entry of the log has and the current
\* time as timestamp, the totals grow by its calories and macros, and every
\* entry that was in the log is still there unchanged; no step of a loaded
\* page changes an entry in place.
C28_DuplicateAddsOneEntry ==
  [][ /\ lastOp'.name = "duplicate"
        => /\ Len(log') = Len(log) + 1
           /\ SubSeq(log', 1, Len(log)) = log
           /\ LET newEntry == log'[Len(log')]
              IN  /\ \E i \in 1..Len(log) :
                        /\ ~IsReset(log[i])
                        /\ newEntry.text = log[i].text
                        /\ newEntry.calories = log[i].calories
                        /\ newEntry.macros = log[i].macros
                  /\ newEntry.id \notin IdsOf(log)
                  /\ newEntry.timestamp = now'
                  /\ consumedCalories' = consumedCalories + newEntry.calories
                  /\ consumedMacros' =
                       [carbs |-> consumedMacros.carbs + newEntry.macros.carbs,
                        protein |-> consumedMacros.protein + newEntry.macros.protein,
                        fat |-> consumedMacros.fat + newEntry.macros.fat]
      /\ (mounted /\ mounted') => NoEntryEdited(log, log')
    ]_vars

\* An estimated entry has been duplicated: the log holds it and its clone.
C28_Witness ==
  /\ lastOp.name = "duplicate"
  /\ Len(log) = 2
  /\ log[1].id # log[2].id
  /\ log[1].text = log[2].text
  /\ log[1].macros = log[2].macros
  /\ log[2].macros.carbs > 0
  /\ log[2].timestamp = now
  /\ log[1].timestamp < now
  /\ consumedCalories = log[1].calories + log[2].calories


\* The goal inputs handleDailyGoalChange must reject: empty, not a number,
\* zero or negative.
RejectedGoalInputs ==
  {inputValue \in GoalInputs :
     \/ inputValue = <<>>
     \/ ParseGoal(inputValue) = <<>>
     \/ ParseGoal(inputValue)[1] <= 0}

\* The goal localStorage holds, the default when it holds none.
StoredGoal(ls) ==
  IF ls.dailyGoal = NoItem THEN DEFAULT_DAILY_GOAL ELSE JSONparse(ls.dailyGoal)

\* C29: dailyGoal is a positive integer in every state; a goal input that
\* is empty, not a number, zero or negative leaves it unchanged; the midnight
\* callback leaves it unchanged and a startup, rolling over or not, takes the
\* stored goal.
C29_GoalPositive ==
  /\ [](dailyGoal \in Nat \ {0})
  /\ [][ /\ (lastOp'.name = "goal" /\ lastOp'.input \in RejectedGoalInputs)
              => dailyGoal' = dailyGoal
         /\ lastOp'.name = "fire" => dailyGoal' = dailyGoal
         /\ lastOp'.name = "startup" => dailyGoal' = StoredGoal(localStorage)
         /\ mounted' => localStorage'.dailyGoal = JSONstringify(dailyGoal')
       ]_vars

\* The goal was set to 600, a day was archived under it, and an input of 0
\* has just been refused.
C29_Witness ==
  /\ lastOp.name = "goal"
  /\ lastOp.input = <<"0">>
  /\ dailyGoal = 600
  /\ \E i \in 1..Len(calorieHistory) : calorieHistory[i].dailyGoalAtTheTime = 600


\* The handlers that log an entry, remove one or clone one, and the start
\* of a submission that passed the key check.
SuccessfulOrSubmit ==
  {"manual", "estimate", "described", "delete", "duplicate",
   "duplicateFromHistory", "submit"}

\* C30: an error a failed action has set is gone after the next successful
\* add, delete or duplicate and after the next submission attempt that does
\* not itself fail.
C30_ErrorCleared ==
  [][ (error # NoError /\ lastOp'.name \in SuccessfulOrSubmit)
        => error' = NoError
    ]_vars


\* The macro totals of the entries of l.
RECURSIVE SumMacros(_)
SumMacros(l) ==
  IF l = <<>> THEN ZeroMacros
  ELSE LET rest == SumMacros(Tail(l))
       IN  [carbs |-> Head(l).macros.carbs + rest.carbs,
            protein |-> Head(l).macros.protein + rest.protein,
            fat |-> Head(l).macros.fat + rest.fat]

\* C31: in every state of a loaded page consumedCalories is the sum of the
\* calories of the entries of the log and consumedMacros is the sum of
\* their macros, the sentinel entries counting as zero.
C31_TotalsMatchLog ==
  mounted =>
    /\ consumedCalories = SumCalories(log)
    /\ consumedMacros = SumMacros(log)

\* An estimated entry was added twice and one of the two removed again.
C31_Witness ==
  /\ mounted
  /\ lastOp.name = "delete"
  /\ Len(log) = 1
  /\ log[1].macros.carbs > 0
  /\ consumedCalories = log[1].calories
  /\ consumedMacros = log[1].macros


\* The response of one of the awaited calls has been handled: its entry is
\* in front of the unchanged log and the totals have grown by its values.
OneEntryAdded ==
  \E i \in 1..Len(inflight) :
    /\ inflight' = RemoveAt(inflight, i)
    /\ Len(log') = Len(log) + 1
    /\ Tail(log') = log
    /\ log'[1].text = inflight[i].text
    /\ log'[1].timestamp = now
    /\ consumedCalories' = consumedCalories + log'[1].calories
    /\ consumedMacros' =
         [carbs |-> consumedMacros.carbs + log'[1].macros.carbs,
          protein |-> consumedMacros.protein + log'[1].macros.protein,
          fat |-> consumedMacros.fat + log'[1].macros.fat]

\* C32: when submissions overlap, each response that arrives, in whatever
\* order, puts its own entry in front of the log as it is then and adds its
\* calories and macros to the totals as they are then, so after both
\* responses both entries are in the log and the totals are the sum over
\* the log: no increment is lost.
C32_OverlapKeepsBoth ==
  /\ [](mounted => /\ consumedCalories = SumCalories(log)
                   /\ consumedMacros = SumMacros(log))
  /\ [][lastOp'.name = "estimate" => OneEntryAdded]_vars

\* Two calls were awaited together and answered in the same instant, the
\* second one first: both entries are in the log and in the totals.
C32_Witness ==
  /\ inflight = <<>>
  /\ Len(log) = 2
  /\ log[1].timestamp = log[2].timestamp
  /\ log[1].text = "toast"
  /\ log[2].text = "salad"
  /\ consumedCalories = log[1].calories + log[2].calories
  /\ consumedCalories > log[1].calories


\* The entries the history holds, over all its days.
ArchivedEntries(h) ==
  UNION {{h[d].mealLog[i] : i \in 1..Len(h[d].mealLog)} : d \in 1..Len(h)}

\* C33: when the midnight callback has run while a submission was awaiting
\* its response, the entry made when the response arrives goes in front of
\* the log the rollover left, the totals are that entry's values, the
\* history the rollover wrote is unchanged and does not hold the entry, and
\* no entry of the log is also in the history.
C33_RolloverDuringSubmission ==
  [][ lastOp'.name = "estimate"
      =>
      /\ Tail(log') = log
      /\ log'[1].text = inflight[1].text
      /\ log'[1].timestamp = now
      /\ consumedCalories' = consumedCalories + log'[1].calories
      /\ calorieHistory' = calorieHistory
      /\ StoredHistory(localStorage') = calorieHistory
      /\ \A i \in 1..Len(log') :
           ~IsReset(log'[i]) => log'[i] \notin ArchivedEntries(calorieHistory')
      /\ lastOp.name = "fire"
           => /\ Len(log) = 1
              /\ IsReset(log[1])
              /\ consumedCalories' = log'[1].calories
              /\ consumedMacros' = log'[1].macros
    ]_vars

\* A day with a meal was archived by the callback while a request was
\* pending, and the response has been handled after it in the same instant.
C33_Witness ==
  /\ lastOp.name = "estimate"
  /\ Len(log) = 2
  /\ IsReset(log[2])
  /\ log[1].timestamp = DayLen
  /\ log[2].timestamp = DayLen
  /\ Len(calorieHistory) = 1
  /\ calorieHistory[1].date = 0
  /\ calorieHistory[1].totalCalories > 0
  /\ consumedCalories = log[1].calories


\* C34: no logged day is mislabelled: every meal a history entry dated D
\* holds was logged on D, also when an action or a response fell between
\* midnight and the run of the callback.
C34_HistoryDayHoldsOwnEntries ==
  \A d \in 1..Len(calorieHistory) :
    \A i \in 1..Len(calorieHistory[d].mealLog) :
      ~IsReset(calorieHistory[d].mealLog[i])
        => getFormattedDate(calorieHistory[d].mealLog[i].timestamp)
             = calorieHistory[d].date


\* The goal, totals, log and history localStorage holds, the defaults of
\* the first render for the items it does not hold.
StoredState(ls) ==
  [dailyGoal |-> StoredGoal(ls),
   consumedCalories |-> IF ls.consumedCalories = NoItem
                        THEN InitialState.consumedCalories
                        ELSE JSONparse(ls.consumedCalories),
   consumedMacros |-> IF ls.consumedMacros = NoItem
                      THEN InitialState.consumedMacros
                      ELSE JSONparse(ls.consumedMacros),
   log |-> StoredLog(ls),
   calorieHistory |-> StoredHistory(ls)]

\* The startup check finds no change of date in ls at instant t: the stored
\* log has no non-sentinel entry, or its first one is dated today.
NoDateChange(ls, t) ==
  \/ NonSentinel(StoredLog(ls)) = <<>>
  \/ getFormattedDate(NonSentinel(StoredLog(ls))[1].timestamp) = getFormattedDate(t)

====
